---------------------------- MODULE Spec2Model ----------------------------
(***************************************************************************)
(* A model of pymath3d's Vector (math3d/vector.py) and Line                *)
(* (math3d/geometry/line.py).                                              *)
(*                                                                         *)
(* Python objects live in a heap: a Vector object is a record holding a    *)
(* reference to its numpy array (_data) and its _isPosition flag; the      *)
(* arrays are separate heap cells, so that two Vectors sharing one array   *)
(* can be told from two Vectors holding equal arrays.  A Line object holds *)
(* references to its _p and _d Vectors and the value bound to _ud.         *)
(*                                                                         *)
(* float64 numbers are modelled as fixed-point numbers: the integer n      *)
(* stands for n / Scale, every multiplication, division and square root    *)
(* rounds to the nearest grid point, a result beyond MaxFloat overflows    *)
(* to inf, and division by zero yields the IEEE-754 values nan, inf and    *)
(* -inf as numpy does (a warning, no exception).  The three non-finite     *)
(* values are coded as the integers just beyond the finite range.          *)
(***************************************************************************)
EXTENDS Integers, Sequences, FiniteSets, TLC

\* ---------------------------------------------------------------- bounds
\* Grid points per unit of the fixed-point model of float64.
Scale == 10
\* Client points have whole coordinates >= 0 summing to at most MaxCoord.
MaxCoord == 1
\* In-place mutations a client performs in one behaviour.
MaxMut == 1
\* Positional arguments, and elements of a sequence argument, given to
\* Vector().
MaxArgs == 4
\* The largest finite float, in grid points.
MaxFloat == 1000000

\* ------------------------------------------------------- float64 numbers
PInf == MaxFloat + 1
NInf == -(MaxFloat + 1)
NaN == MaxFloat + 2
IsFinite(x) == -MaxFloat <= x /\ x <= MaxFloat
\* The float an exact result n rounds to: overflow gives an infinity.
Fin(n) == IF n > MaxFloat THEN PInf ELSE IF n < -MaxFloat THEN NInf ELSE n

Abs(n) == IF n < 0 THEN -n ELSE n
Sgn(n) == IF n < 0 THEN -1 ELSE IF n > 0 THEN 1 ELSE 0
\* The sign of a float that is not nan.
FSgn(x) == IF x = PInf THEN 1 ELSE IF x = NInf THEN -1 ELSE Sgn(x)
SignedInf(s) == IF s > 0 THEN PInf ELSE NInf

\* n / d rounded to the nearest integer (ties away from zero), d # 0.
Round(n, d) == Sgn(n) * Sgn(d) * ((2 * Abs(n) + Abs(d)) \div (2 * Abs(d)))

RECURSIVE ISqrtIter(_, _, _)
ISqrtIter(n, lo, hi) ==
    IF lo >= hi THEN lo
    ELSE LET mid == (lo + hi + 1) \div 2 IN
         IF mid * mid <= n THEN ISqrtIter(n, mid, hi) ELSE ISqrtIter(n, lo, mid - 1)
\* The integer nearest to the square root of n >= 0.
ISqrt(n) ==
    LET Nearest(r) == IF n - r * r > r THEN r + 1 ELSE r IN
    Nearest(ISqrtIter(n, 0, n))

FNeg(x) == IF x = NaN THEN NaN ELSE IF x = PInf THEN NInf ELSE IF x = NInf THEN PInf ELSE -x

FAdd(x, y) ==
    IF x = NaN \/ y = NaN THEN NaN
    ELSE IF IsFinite(x) /\ IsFinite(y) THEN Fin(x + y)
    ELSE IF IsFinite(x) THEN y
    ELSE IF IsFinite(y) THEN x
    ELSE IF x = y THEN x ELSE NaN

FSub(x, y) == FAdd(x, FNeg(y))

FMul(x, y) ==
    IF x = NaN \/ y = NaN THEN NaN
    ELSE IF IsFinite(x) /\ IsFinite(y) THEN Fin(Round(x * y, Scale))
    ELSE IF FSgn(x) * FSgn(y) = 0 THEN NaN
    ELSE SignedInf(FSgn(x) * FSgn(y))

FDiv(x, y) ==
    IF x = NaN \/ y = NaN THEN NaN
    ELSE IF IsFinite(x) /\ IsFinite(y) THEN
        IF y = 0 THEN (IF x = 0 THEN NaN ELSE SignedInf(Sgn(x)))
        ELSE Fin(Round(x * Scale, y))
    ELSE IF IsFinite(x) THEN 0
    ELSE IF IsFinite(y) THEN SignedInf(FSgn(x) * (IF y < 0 THEN -1 ELSE 1))
    ELSE NaN

FSqrt(x) ==
    IF x = NaN \/ x = NInf THEN NaN
    ELSE IF x = PInf THEN PInf
    ELSE IF x < 0 THEN NaN
    ELSE ISqrt(x * Scale)

\* x < y on floats: every comparison with nan is false.
FLess(x, y) ==
    IF x = NaN \/ y = NaN THEN FALSE
    ELSE IF IsFinite(x) /\ IsFinite(y) THEN x < y
    ELSE IF x = y THEN FALSE
    ELSE x = NInf \/ y = PInf

\* The float 1.0
One == Scale

\* ---------------------------------------------------------- numpy arrays
np_add(u, v) == <<FAdd(u[1], v[1]), FAdd(u[2], v[2]), FAdd(u[3], v[3])>>
np_subtract(u, v) == <<FSub(u[1], v[1]), FSub(u[2], v[2]), FSub(u[3], v[3])>>
np_negative(u) == <<FNeg(u[1]), FNeg(u[2]), FNeg(u[3])>>
np_dot(u, v) == FAdd(FAdd(FMul(u[1], v[1]), FMul(u[2], v[2])), FMul(u[3], v[3]))
np_scale(u, k) == <<FMul(u[1], k), FMul(u[2], k), FMul(u[3], k)>>
np_divide(u, k) == <<FDiv(u[1], k), FDiv(u[2], k), FDiv(u[3], k)>>
np_cross(u, v) ==
    <<FSub(FMul(u[2], v[3]), FMul(u[3], v[2])),
      FSub(FMul(u[3], v[1]), FMul(u[1], v[3])),
      FSub(FMul(u[1], v[2]), FMul(u[2], v[1]))>>
np_sqrt(x) == FSqrt(x)

\* -------------------------------------------------------- Python values
\* A float (np.float64, float or int: every isNumType value).
Num(v) == [t |-> "num", v |-> v]
NoneV == [t |-> "None"]
\* A value that is neither a number, a sequence nor a Vector.
Obj == [t |-> "object"]
Tup(items) == [t |-> "tuple", items |-> items]
\* A numpy array of three floats made inside a method.
Arr(data) == [t |-> "ndarray", items |-> <<Num(data[1]), Num(data[2]), Num(data[3])>>]
\* A bound method object, as the attribute reference obj.name yields.
Method(slot, name) == [t |-> "method", self |-> slot, name |-> name]
\* A raised exception, as the outcome of evaluating an expression.
Raise(exc) == [t |-> "raise", exc |-> exc]
IsRaise(x) == x.t = "raise"
\* A Vector object: data is the content of its _data array, pos its
\* _isPosition, and arr the array _data refers to: a heap cell, or "new"
\* for an array the expression itself created.
VecObj(data, pos, arr) == [t |-> "Vector", data |-> data, pos |-> pos, arr |-> arr]

\* math3d.utils
isNumType(x) == x.t = "num"
isSequence(x) == x.t \in {"tuple", "ndarray"}
isNumTypes(xs) == \A i \in DOMAIN xs : isNumType(xs[i])
isThreeSequence(x) == isSequence(x) /\ Len(x.items) = 3 /\ isNumTypes(x.items)
\* utils.eps / utils._eps: the tolerance.  The float64 value is far below
\* the grid of the model, whose smallest positive number stands for it.
eps == 1

\* np.array(items, dtype=np.float64): a new array, or ValueError when an
\* item is not a number.
\* An array object: its content, and the heap cell that holds it ("new"
\* for an array the expression itself created).
Array(data, arr) == [t |-> "array", data |-> data, arr |-> arr]
np_array(items) ==
    IF isNumTypes(items) THEN Array(<<items[1].v, items[2].v, items[3].v>>, "new")
    ELSE Raise("ValueError")

\* The bug of binding the argument's own array instead of a copy of it.
ndarray_alias(v) == Array(v.data, v.arr)
\* arg._data.astype(np.float64): a copy of the argument's array.
ndarray_astype(v) == Array(v.data, "new")

\* ----------------------------------------------------------------- Vector
\* The array Vector.__init__(*args, **kwargs) binds _data to, or the
\* exception it raises.
Vector__init__data(args) ==
    IF Len(args) = 3 /\ isNumTypes(args) THEN np_array(args)
    ELSE IF Len(args) = 2 /\ isNumTypes(args) THEN np_array(<<args[1], args[2], Num(0)>>)
    ELSE IF Len(args) = 1 THEN
        LET arg == args[1] IN
        IF isThreeSequence(arg) THEN np_array(arg.items)
        ELSE IF isSequence(arg) /\ Len(arg.items) = 2
            THEN np_array(<<arg.items[1], arg.items[2], Num(0)>>)
        ELSE IF arg.t = "Vector"
            THEN ndarray_astype(arg)
        ELSE Raise("Vector.Error")
    ELSE Array(<<0, 0, 0>>, "new")

\* The _isPosition the constructor sets: 1, unless 'position' is given false.
Vector__init__isPosition(kwargs) ==
    IF "position" \in DOMAIN kwargs
    THEN (IF kwargs.position THEN 1 ELSE 0)
    ELSE 1

\* Vector.__init__(*args, **kwargs).  kwargs is a record of the keywords
\* given.  The result is the constructed object, or the exception raised.
Vector__init__(args, kwargs) ==
    LET Made(d) == IF IsRaise(d) THEN d
                   ELSE VecObj(d.data, Vector__init__isPosition(kwargs), d.arr) IN
    Made(Vector__init__data(args))

NoKw == <<>>
\* Vector(x): the one-argument call the methods make.
Vector(x) == IF IsRaise(x) THEN x ELSE Vector__init__(<<x>>, NoKw)

Vector__copy__(self) == Vector(self)
Vector__deepcopy__(self) == Vector__copy__(self)
\* copy() with other = None.
Vector_copy(self) == Vector(self)
isPos(self) == self.pos

length2(self) == np_dot(self.data, self.data)
length(self) == np_sqrt(length2(self))

\* normalize(): the array _data is bound to afterwards; the old array is
\* kept when the length is exactly 1.0.
normalize(self) ==
    LET Scaled(l) == IF l # One THEN Array(np_divide(self.data, l), "new")
                     ELSE Array(self.data, self.arr) IN
    Scaled(length(self))

\* The Vector nv after nv.normalize().
Normalized(nv, n) == VecObj(n.data, nv.pos, n.arr)
normalized(self) ==
    LET Norm(nv) == IF IsRaise(nv) THEN nv ELSE Normalized(nv, normalize(nv)) IN
    Norm(Vector(self))

\* x.cross(y): Vector.cross, or AttributeError when x has no such method
\* or y no _data.
cross(self, other) ==
    IF IsRaise(self) THEN self ELSE IF IsRaise(other) THEN other
    ELSE IF self.t = "Vector" /\ other.t = "Vector"
        THEN Vector(Arr(np_cross(self.data, other.data)))
    ELSE Raise("AttributeError")

Vector__sub__(self, other) ==
    IF other.t = "Vector" THEN Vector(Arr(np_subtract(self.data, other.data)))
    ELSE NoneV

Vector__mul__(self, other) ==
    IF other.t = "Vector" THEN Num(np_dot(self.data, other.data))
    ELSE IF isNumType(other) THEN Vector(Arr(np_scale(self.data, other.v)))
    ELSE NoneV

Vector__rmul__(self, other) ==
    IF isNumType(other) THEN Vector(Arr(np_scale(self.data, other.v)))
    ELSE Raise("Vector.Error")

\* other is an np.float64, as the quotients Line computes are: 1.0 / other
\* follows IEEE-754 for other = 0.
Vector__truediv__(self, other) ==
    IF isNumType(other) THEN Vector(Arr(np_scale(self.data, FDiv(One, other.v))))
    ELSE Raise("Vector.Error")

Vector__add__(self, other) ==
    IF other.t = "Vector" THEN Vector(Arr(np_add(self.data, other.data)))
    ELSE Raise("Vector.Error")

Vector__neg__(self) == Vector(Arr(np_negative(self.data)))

\* The binary operators as Python dispatches them: the left operand's
\* method when its type has one, else the right operand's reflected method,
\* else TypeError.  Operands are evaluated left to right, so an exception
\* of the left one wins.
PySub(x, y) ==
    IF IsRaise(x) THEN x ELSE IF IsRaise(y) THEN y
    ELSE IF x.t = "Vector" THEN Vector__sub__(x, y)
    ELSE IF x.t = "num" /\ y.t = "num" THEN Num(FSub(x.v, y.v))
    ELSE Raise("TypeError")

PyAdd(x, y) ==
    IF IsRaise(x) THEN x ELSE IF IsRaise(y) THEN y
    ELSE IF x.t = "Vector" THEN Vector__add__(x, y)
    ELSE IF x.t = "num" /\ y.t = "num" THEN Num(FAdd(x.v, y.v))
    ELSE Raise("TypeError")

PyMul(x, y) ==
    IF IsRaise(x) THEN x ELSE IF IsRaise(y) THEN y
    ELSE IF x.t = "Vector" THEN Vector__mul__(x, y)
    ELSE IF x.t = "num" /\ y.t = "num" THEN Num(FMul(x.v, y.v))
    ELSE IF y.t = "Vector" THEN Vector__rmul__(y, x)
    ELSE Raise("TypeError")

PyDiv(x, y) ==
    IF IsRaise(x) THEN x ELSE IF IsRaise(y) THEN y
    ELSE IF x.t = "Vector" THEN Vector__truediv__(x, y)
    ELSE IF x.t = "num" /\ y.t = "num" THEN Num(FDiv(x.v, y.v))
    ELSE Raise("TypeError")

\* x < y, for the comparison in Line's methods.
PyLess(x, y) ==
    IF IsRaise(x) THEN x ELSE IF IsRaise(y) THEN y
    ELSE IF x.t = "num" /\ y.t = "num" THEN [t |-> "bool", v |-> FLess(x.v, y.v)]
    ELSE Raise("TypeError")

\* ------------------------------------------------------------------- Line
\* The Vector objects a Line named self holds in _p and _d.
PSlot(self) == IF self = "L1" THEN "L1._p" ELSE "L2._p"
DSlot(self) == IF self = "L1" THEN "L1._d" ELSE "L2._d"

\* [m3d.Vector(e) for e in pair], unpacked into (self._p, self._d).
\* self._p, self._d = p, d: the exception raised while evaluating p or d
\* (in that order), or the two attributes.
PD(p, d) ==
    IF IsRaise(p) THEN p ELSE IF IsRaise(d) THEN d
    ELSE [t |-> "Line", _p |-> p, _d |-> d]

Line__init__pair(pair) == PD(Vector(pair.items[1]), Vector(pair.items[2]))

\* The bug of subtracting the wrong way round: d = point0 - point1.
Line__init__points_reversed(p, point1) == PD(p, PySub(p, Vector(point1)))
\* self._p = Vector(point0); self._d = Vector(point1) - self._p
Line__init__points(p, point1) == PD(p, PySub(Vector(point1), p))

\* The (self._p, self._d) Line.__init__(**kwargs) binds, or the exception
\* it raises.
Line__init__pd(kwargs) ==
    IF "point_direction" \in DOMAIN kwargs THEN Line__init__pair(kwargs.point_direction)
    ELSE IF "pd_pair" \in DOMAIN kwargs THEN Line__init__pair(kwargs.pd_pair)
    ELSE IF "point" \in DOMAIN kwargs /\ "direction" \in DOMAIN kwargs THEN
        PD(Vector(kwargs.point), Vector(kwargs.direction))
    ELSE IF "point0" \in DOMAIN kwargs /\ "point1" \in DOMAIN kwargs THEN
        Line__init__points(Vector(kwargs.point0), kwargs.point1)
    ELSE Raise("Exception")

\* The value Line.__init__ binds self._ud to: the attribute reference
\* self._d.normalized, which is the bound method (it is not called).
Line__init__ud(self) == Method(DSlot(self), "normalized")

\* Line.__init__(self, **kwargs): the attributes of the new Line, or the
\* exception raised.
Line__init__(self, kwargs) ==
    LET Made(pd) ==
            IF IsRaise(pd) THEN pd
            ELSE [t |-> "Line", _p |-> pd._p, _d |-> pd._d, _ud |-> Line__init__ud(self)] IN
    Made(Line__init__pd(kwargs))

\* The properties point, direction and unit_direction of a Line whose
\* attributes are the values given.
point(_p) == Vector(_p)
direction(_d) == Vector(_d)
unit_direction(_ud) == Vector(_ud)

\* (1 - self._ud * line._ud) < 10 * m3d.utils.eps
IsParallel(ud1, ud2) ==
    PyLess(PySub(Num(One), PyMul(ud1, ud2)), Num(10 * eps))

\* projected_point(self, p), self given by its attributes.
projected_point(self, p) ==
    LET Projected(p2p) == PySub(PyAdd(p, p2p), PyMul(PyMul(self._ud, p2p), self._ud)) IN
    Projected(PySub(self._p, p))

\* p1 + ((p2-p1) * n2 / (d1 * n2)) * d1
NearestAlong(p1, d1, p2, n2) ==
    PyAdd(p1, PyMul(PyDiv(PyMul(PySub(p2, p1), n2), PyMul(d1, n2)), d1))

\* projected_line(self, line)
projected_line(self, line) ==
    LET Nearest(n2) ==
            IF IsRaise(n2) THEN n2
            ELSE NearestAlong(self._p, self._ud, line._p, n2) IN
    LET Branch(par) ==
            IF IsRaise(par) THEN par
            ELSE IF par.v THEN point(self._p)
            ELSE Nearest(cross(line._ud, cross(self._ud, line._ud))) IN
    Branch(IsParallel(self._ud, line._ud))

\* The tuple (q1, q2), or the exception raised while evaluating q1 or q2.
Pair(q1, q2) == IF IsRaise(q1) THEN q1 ELSE IF IsRaise(q2) THEN q2 ELSE Tup(<<q1, q2>>)

\* nearest_points(self, line)
nearest_points(self, line) ==
    LET Nearest(n1, n2) ==
            IF IsRaise(n1) THEN n1 ELSE IF IsRaise(n2) THEN n2
            ELSE Pair(NearestAlong(self._p, self._ud, line._p, n2),
                      NearestAlong(line._p, line._ud, self._p, n1)) IN
    LET Branch(par) ==
            IF IsRaise(par) THEN par
            ELSE IF par.v THEN point(self._p)
            ELSE Nearest(cross(self._ud, cross(line._ud, self._ud)),
                         cross(line._ud, cross(self._ud, line._ud))) IN
    Branch(IsParallel(self._ud, line._ud))

\* ------------------------------------------------------------------ state
VARIABLES
    vec,    \* the Vector objects: name -> [_data: array cell, _isPosition]
    nd,     \* the numpy arrays: cell -> its three floats
    line,   \* the Line objects: name -> [_p, _d: Vector names, _ud: value]
    ctor,   \* per Line, the call that constructed it and (p, d, ud) then
    res,    \* the last call: operation, receiver, argument, outcome
    nmut    \* in-place mutations performed so far

vars == <<vec, nd, line, ctor, res, nmut>>

\* The names of the Vector objects; array cells take their names from them.
Slots == {"a", "b", "c", "r", "r2", "v", "w", "L1._p", "L1._d", "L2._p", "L2._d"}
Lines == {"L1", "L2"}

\* The Vector object named s, as a value.
V(s) == VecObj(nd[vec[s]._data], vec[s]._isPosition, vec[s]._data)

\* An array cell no Vector other than s refers to: s's own when it is free.
FreshArr(vc, s) ==
    IF \A t \in DOMAIN vc \ {s} : vc[t]._data # s THEN s
    ELSE CHOOSE i \in Slots : \A t \in DOMAIN vc \ {s} : vc[t]._data # i

\* The heap after name s is bound to the Vector object x: an array the
\* expression created gets a cell of its own, and cells no Vector refers to
\* any more are dropped.
BindTo(h, vc, id, data) ==
    [vec |-> vc,
     nd |-> [i \in {vc[t]._data : t \in DOMAIN vc} |-> IF i = id THEN data ELSE h.nd[i]]]
BindAt(h, s, x, id) ==
    BindTo(h, [t \in DOMAIN h.vec \cup {s} |->
                  IF t = s THEN [_data |-> id, _isPosition |-> x.pos] ELSE h.vec[t]],
           id, x.data)
Bind(h, s, x) == BindAt(h, s, x, IF x.arr = "new" THEN FreshArr(h.vec, s) ELSE x.arr)

\* The heap after the array of Vector s is overwritten in place.
Store(h, s, data) ==
    [vec |-> h.vec, nd |-> [h.nd EXCEPT ![h.vec[s]._data] = data]]

\* The heap after s._data is bound to the array a.
Rebind(h, s, a) == Bind(h, s, VecObj(a.data, h.vec[s]._isPosition, a.arr))

Heap == [vec |-> vec, nd |-> nd]

\* A Line object as the values of its attributes.
LineVal(L) == [_p |-> V(line[L]._p), _d |-> V(line[L]._d), _ud |-> line[L]._ud]

\* (p, d, ud) of Line L now: the contents of _p and _d, and _ud.
LineState(L) == [p |-> V(line[L]._p).data, d |-> V(line[L]._d).data, ud |-> line[L]._ud]

NoCall == [op |-> "none", self |-> "none", arg |-> NoneV, out |-> NoneV]
Call(op, self, arg, out) == [op |-> op, self |-> self, arg |-> arg, out |-> out]

\* ------------------------------------------------------------ the client
\* The client's points have whole coordinates >= 0 that sum to at most
\* MaxCoord.
Coords == {k * Scale : k \in 0 .. MaxCoord}
Triples == {t \in Coords \X Coords \X Coords : t[1] + t[2] + t[3] <= MaxCoord * Scale}

\* The heap is h.
Holds(h) == vec = h.vec /\ nd = h.nd
\* The heap becomes h.
Becomes(h) == vec' = h.vec /\ nd' = h.nd

\* The client holds two Vectors a and b, built from three scalars each,
\* and their difference c = b - a.
Init ==
    /\ \E ta \in Triples, tb \in Triples :
         \E xa \in {Vector__init__(<<Num(ta[1]), Num(ta[2]), Num(ta[3])>>, NoKw)},
            xb \in {Vector__init__(<<Num(tb[1]), Num(tb[2]), Num(tb[3])>>, NoKw)} :
            Holds(Bind(Bind(Bind([vec |-> <<>>, nd |-> <<>>], "a", xa), "b", xb),
                       "c", PySub(xb, xa)))
    /\ line = <<>>
    /\ ctor = <<>>
    /\ res = NoCall
    /\ nmut = 0

\* The in-place operators and methods of Vector s: the heap afterwards and
\* what the call returns ("self") or raises.
Done(h, out) == [h |-> h, out |-> out]
Self == [t |-> "self"]

Vector__iadd__(h, s, other) ==
    IF other.t = "Vector"
    THEN Done(Store(h, s, np_add(h.nd[h.vec[s]._data], other.data)), Self)
    ELSE Done(h, Raise("Vector.Error"))

Vector__isub__(h, s, other) ==
    IF other.t = "Vector"
    THEN Done(Store(h, s, np_subtract(h.nd[h.vec[s]._data], other.data)), Self)
    ELSE Done(h, Self)

Vector__imul__(h, s, other) ==
    IF isNumType(other)
    THEN Done(Store(h, s, np_scale(h.nd[h.vec[s]._data], other.v)), Self)
    ELSE Done(h, Raise("Vector.Error"))

Vector__setitem__(h, s, n, val) ==
    Done(Store(h, s, [h.nd[h.vec[s]._data] EXCEPT ![n] = val]), NoneV)

Vector_normalize(h, s) ==
    Done(Rebind(h, s, normalize(VecObj(h.nd[h.vec[s]._data], h.vec[s]._isPosition,
                                       h.vec[s]._data))), NoneV)

\* -------------------------------------------------- the client of a Line
\* The arguments the client constructs Lines from: its Vectors, or tuples
\* of their components.
TupOf(s) == Tup(<<Num(V(s).data[1]), Num(V(s).data[2]), Num(V(s).data[3])>>)

LineKwargs(x, y) ==
    {[point_direction |-> Tup(<<x, y>>)], [pd_pair |-> Tup(<<x, y>>)],
     [point |-> x, direction |-> y], [point0 |-> x, point1 |-> y], [point |-> x]}

\* L = Line(**kwargs)
NewLine(L, kwargs) ==
    /\ L \notin DOMAIN line
    /\ \E x \in {Line__init__(L, kwargs)} :
       IF IsRaise(x)
       THEN /\ res' = Call("Line", L, kwargs, x)
            /\ UNCHANGED <<vec, nd, line, ctor, nmut>>
       ELSE /\ Becomes(Bind(Bind(Heap, PSlot(L), x._p), DSlot(L), x._d))
            /\ line' = [M \in DOMAIN line \cup {L} |->
                          IF M = L THEN [_p |-> PSlot(L), _d |-> DSlot(L), _ud |-> x._ud]
                          ELSE line[M]]
            /\ ctor' = [M \in DOMAIN ctor \cup {L} |->
                          IF M = L THEN [kwargs |-> kwargs, p |-> x._p.data,
                                         d |-> x._d.data, ud |-> x._ud]
                          ELSE ctor[M]]
            /\ res' = Call("Line", L, kwargs, NoneV)
            /\ UNCHANGED nmut

\* r = L.point, r = L.direction, r = L.unit_direction
Get(L, attr) ==
    /\ L \in DOMAIN line
    /\ \E out \in {CASE attr = "point" -> point(LineVal(L)._p)
                      [] attr = "direction" -> direction(LineVal(L)._d)
                      [] attr = "unit_direction" -> unit_direction(LineVal(L)._ud)} :
       IF IsRaise(out)
       THEN /\ res' = Call(attr, L, NoneV, out)
            /\ UNCHANGED <<vec, nd>>
       ELSE /\ Becomes(Bind(Heap, "r", out))
            /\ res' = Call(attr, L, NoneV, out)
    /\ UNCHANGED <<line, ctor, nmut>>

\* The Vectors the client holds and may mutate: the ones it passed to the
\* constructors and the one an accessor returned.
ClientSlots == {"a", "b", "c", "r", "v"} \cap DOMAIN vec

Mutated(op, s, arg, m) ==
    /\ Becomes(m.h)
    /\ res' = Call(op, s, arg, m.out)
    /\ nmut' = nmut + 1
    /\ UNCHANGED <<line, ctor>>

\* s[n] = val (s.x = val, s.y = val and s.z = val are the same writes)
SetItem(s, n, val) ==
    /\ nmut < MaxMut
    /\ s \in ClientSlots
    /\ Mutated("__setitem__", s, Num(val), Vector__setitem__(Heap, s, n, val))

\* s += x
IAdd(s, x) ==
    /\ nmut < MaxMut
    /\ s \in ClientSlots
    /\ Mutated("__iadd__", s, x, Vector__iadd__(Heap, s, x))

\* s -= x
ISub(s, x) ==
    /\ nmut < MaxMut
    /\ s \in ClientSlots
    /\ Mutated("__isub__", s, x, Vector__isub__(Heap, s, x))

\* s *= x
IMul(s, x) ==
    /\ nmut < MaxMut
    /\ s \in ClientSlots
    /\ Mutated("__imul__", s, x, Vector__imul__(Heap, s, x))

\* s.normalize()
Normalize(s) ==
    /\ nmut < MaxMut
    /\ s \in ClientSlots
    /\ Mutated("normalize", s, NoneV, Vector_normalize(Heap, s))

\* A method of Line L returned out: a Vector is bound to r, a pair of
\* Vectors to (r, r2).
Returned(op, L, arg, out) ==
    /\ Becomes(IF out.t = "Vector" THEN Bind(Heap, "r", out)
               ELSE IF out.t = "tuple"
                   THEN Bind(Bind(Heap, "r", out.items[1]), "r2", out.items[2])
               ELSE Heap)
    /\ res' = Call(op, L, arg, out)
    /\ UNCHANGED <<line, ctor, nmut>>

\* r = L.projected_point(s)
ProjectedPoint(L, s) ==
    /\ L \in DOMAIN line
    /\ s \in ClientSlots
    /\ Returned("projected_point", L, V(s), projected_point(LineVal(L), V(s)))

\* r = L.projected_line(M)
ProjectedLine(L, M) ==
    /\ L \in DOMAIN line /\ M \in DOMAIN line
    /\ Returned("projected_line", L, [t |-> "Line", name |-> M],
                projected_line(LineVal(L), LineVal(M)))

\* r, r2 = L.nearest_points(M)
NearestPoints(L, M) ==
    /\ L \in DOMAIN line /\ M \in DOMAIN line
    /\ Returned("nearest_points", L, [t |-> "Line", name |-> M],
                nearest_points(LineVal(L), LineVal(M)))

\* The client of Line: it constructs L1 from its Vectors a and b, then L2
\* from tuples of the components of a and of b or c, in any of the keyword
\* forms, reads the properties and calls the methods.
Next ==
    \/ \E kwargs \in LineKwargs(V("a"), V("b")) : NewLine("L1", kwargs)
    \/ \E y \in {"b", "c"} : \E kwargs \in LineKwargs(TupOf("a"), TupOf(y)) :
         /\ "L1" \in DOMAIN line
         /\ NewLine("L2", kwargs)
    \/ \E L \in Lines, attr \in {"point", "direction", "unit_direction"} : Get(L, attr)
    \/ \E s \in {"b", "r"} : ProjectedPoint("L1", s)
    \/ \E M \in Lines : ProjectedLine("L1", M)
    \/ \E M \in Lines : NearestPoints("L1", M)

Spec == Init /\ [][Next]_vars

\* The client that mutates what it holds: it constructs L1 from the Vectors
\* a and b, reads the properties into r, mutates a and r in place and calls
\* the methods.
FrameNext ==
    \/ \E kwargs \in LineKwargs(V("a"), V("b")) : NewLine("L1", kwargs)
    \/ \E attr \in {"point", "direction", "unit_direction"} : Get("L1", attr)
    \/ \E s \in {"a", "r"} : SetItem(s, 1, -Scale)
    \/ \E s \in {"a", "r"} : IAdd(s, V("b"))
    \/ \E s \in {"a", "r"} : ISub(s, V("b"))
    \/ \E s \in {"a", "r"} : IMul(s, Num(2 * Scale))
    \/ \E s \in {"a", "r"} : Normalize(s)
    \/ \E s \in {"a", "r"} : ProjectedPoint("L1", s)
    \/ ProjectedLine("L1", "L1")
    \/ NearestPoints("L1", "L1")

FrameSpec == Init /\ [][FrameNext]_vars

\* ------------------------------------------------- the client of a Vector
\* What the client passes where a number is expected: a number, or a value
\* that is neither a number, a sequence nor a Vector.
Atoms == {Num(Scale), Obj}
AtomSeqs(lo, hi) == UNION {[1 .. n -> Atoms] : n \in lo .. hi}
\* The argument lists of Vector(): up to MaxArgs positional arguments, or
\* one sequence of 2 to MaxArgs elements.
ArgLists == AtomSeqs(0, MaxArgs) \cup {<<Tup(t)>> : t \in AtomSeqs(2, MaxArgs)}
KwargsSet == {NoKw, [position |-> TRUE], [position |-> FALSE]}
\* The right operands of the client's arithmetic.
Operands ==
    {Num(Scale), Obj, NoneV, Tup(<<Num(Scale), Num(0), Num(0)>>)}
        \cup {V(s) : s \in {"w"} \cap DOMAIN vec}

VectorInit ==
    /\ vec = <<>>
    /\ nd = <<>>
    /\ line = <<>>
    /\ ctor = <<>>
    /\ res = NoCall
    /\ nmut = 0

\* A call on Vector v returned out: a Vector result is bound to name s.
Result(op, arg, out, s) ==
    /\ Becomes(IF out.t = "Vector" THEN Bind(Heap, s, out) ELSE Heap)
    /\ res' = Call(op, "v", arg, out)
    /\ UNCHANGED <<line, ctor, nmut>>

\* v = Vector(*args, **kwargs), until a call succeeds
Construct(args, kwargs) ==
    /\ "v" \notin DOMAIN vec
    /\ Result("Vector", [args |-> args, kwargs |-> kwargs], Vector__init__(args, kwargs), "v")

\* w = Vector(v), w = v.__copy__(), w = v.__deepcopy__(memo), w = v.copy()
Copy(how) ==
    /\ "v" \in DOMAIN vec
    /\ Result(how, NoneV,
              CASE how = "Vector(v)" -> Vector(V("v"))
                [] how = "__copy__" -> Vector__copy__(V("v"))
                [] how = "__deepcopy__" -> Vector__deepcopy__(V("v"))
                [] how = "copy" -> Vector_copy(V("v")),
              "w")

\* r = v + x
Add(x) ==
    /\ "v" \in DOMAIN vec
    /\ Result("__add__", x, PyAdd(V("v"), x), "r")

\* r = v - x
Sub(x) ==
    /\ "v" \in DOMAIN vec
    /\ Result("__sub__", x, PySub(V("v"), x), "r")

VectorNext ==
    \/ \E args \in ArgLists, kwargs \in KwargsSet : Construct(args, kwargs)
    \/ \E how \in {"Vector(v)", "__copy__", "__deepcopy__", "copy"} : Copy(how)
    \/ \E x \in Operands : Add(x)
    \/ \E x \in Operands : Sub(x)
    \/ \E x \in Operands : IAdd("v", x)
    \/ \E x \in Operands : ISub("v", x)
    \/ \E x \in Operands : IMul("v", x)

VectorSpec == VectorInit /\ [][VectorNext]_vars

\* ----------------------------------------------------------------- claims
Zero == <<0, 0, 0>>
\* The components of a constructor argument: a Vector or a tuple.
DataOf(x) == IF x.t = "Vector" THEN x.data ELSE <<x.items[1].v, x.items[2].v, x.items[3].v>>
\* The directions of Lines L and M are both non-zero and not multiples of
\* one another / multiples of one another (of either sign).
NonParallel(L, M) == np_cross(LineState(L).d, LineState(M).d) # Zero
Parallel(L, M) ==
    /\ LineState(L).d # Zero /\ LineState(M).d # Zero
    /\ np_cross(LineState(L).d, LineState(M).d) = Zero
\* |x| < 10 * eps
Small(x) == FLess(x, 10 * eps) /\ FLess(-(10 * eps), x)
\* The point q lies on the line through p with direction d.
OnLine(q, p, d) == \A i \in 1 .. 3 : Small(np_cross(np_subtract(q, p), d)[i])

\* C1: for non-parallel lines L1, L2, L1.nearest_points(L2) returns a pair
\* (q1, q2) with q1 on L1, q2 on L2 and q2 - q1 perpendicular to both
\* directions.
C1_NearestPointsPerpendicular ==
    (res.op = "nearest_points" /\ NonParallel(res.self, res.arg.name)) =>
        /\ res.out.t = "tuple"
        /\ OnLine(res.out.items[1].data, LineState(res.self).p, LineState(res.self).d)
        /\ OnLine(res.out.items[2].data, LineState(res.arg.name).p,
                  LineState(res.arg.name).d)
        /\ Small(np_dot(np_subtract(res.out.items[2].data, res.out.items[1].data),
                        LineState(res.self).d))
        /\ Small(np_dot(np_subtract(res.out.items[2].data, res.out.items[1].data),
                        LineState(res.arg.name).d))

\* distance(pl, L.projected_point(pl)) < 10 * eps
FixedPoint(L, pl, pp) ==
    /\ pp.t = "Vector"
    /\ FLess(np_sqrt(length2(VecObj(np_subtract(pl.data, pp.data), 1, "new"))), 10 * eps)

\* C2: for non-parallel lines L1, L2, pl = L1.projected_line(L2) is a point
\* that projecting onto L1 again leaves fixed.
C2_ProjectedLineOnLine ==
    (res.op = "projected_line" /\ NonParallel(res.self, res.arg.name)) =>
        /\ res.out.t = "Vector"
        /\ FixedPoint(res.self, res.out, projected_point(LineVal(res.self), res.out))

\* C3: for lines with parallel or anti-parallel directions,
\* self.projected_line(other) returns exactly self.point.
C3_ParallelReturnsPoint ==
    (res.op = "projected_line" /\ Parallel(res.self, res.arg.name)) =>
        /\ res.out.t = "Vector"
        /\ res.out.data = LineState(res.self).p

\* C4: after a successful construction the cached ud of a Line is the
\* Vector normalize(d), and unit_direction returns a Vector of that value.
C4_UnitDirectionCached ==
    /\ \A L \in DOMAIN line :
         LineState(L).d # Zero =>
            /\ line[L]._ud.t = "Vector"
            /\ line[L]._ud.data = normalized(V(line[L]._d)).data
    /\ (res.op = "unit_direction" /\ LineState(res.self).d # Zero) =>
            /\ res.out.t = "Vector"
            /\ res.out.data = normalized(V(line[res.self]._d)).data

\* C5: constructing a Line whose direction is the zero vector fails: no
\* Line with a zero direction is ever produced.
C5_ZeroDirectionRejected ==
    \A L \in DOMAIN line : ctor[L].d # Zero

\* C6: every add and subtract operator of Vector, binary or in-place, given
\* an operand that is not a Vector raises, and leaves the receiver as it was.
C6_AddSubNonVectorFails ==
    [][(res'.op \in {"__add__", "__sub__", "__iadd__", "__isub__"}
            /\ res'.arg.t # "Vector")
        => (IsRaise(res'.out) /\ V("v")' = V("v"))]_vars

\* The argument lists Vector() accepts: 3 numbers, 2 numbers, one sequence
\* of 3 or 2 numbers, one Vector.
AcceptedForm(args) ==
    \/ Len(args) \in {2, 3} /\ isNumTypes(args)
    \/ /\ Len(args) = 1
       /\ \/ args[1].t = "Vector"
          \/ isSequence(args[1]) /\ Len(args[1].items) \in {2, 3} /\ isNumTypes(args[1].items)

\* C7: Vector() raises for every argument list that matches none of the
\* accepted forms; no vector is produced.
C7_BadArgumentsRejected ==
    (res.op = "Vector" /\ ~AcceptedForm(res.arg.args)) => IsRaise(res.out)

\* The client reads a property of L1 into r and writes a component of r,
\* which then differs from both p and d of L1.
C8_Witness ==
    /\ "L1" \in DOMAIN line
    /\ res.op = "__setitem__" /\ res.self = "r"
    /\ V("r").data # LineState("L1").p
    /\ V("r").data # LineState("L1").d

\* The names a returning method call binds its result to.
Rebound(out) == IF out.t = "Vector" THEN {"r"} ELSE IF out.t = "tuple" THEN {"r", "r2"} ELSE {}

\* C8: a Line is immutable: whatever the client reads, mutates and calls,
\* (p, d, ud) of the Line are what they were at construction, and the
\* methods leave their Vector and Line arguments as they were.
C8_LineImmutable ==
    /\ [](\A L \in DOMAIN line :
            LineState(L) = [p |-> ctor[L].p, d |-> ctor[L].d, ud |-> ctor[L].ud])
    /\ [][res'.op \in {"projected_point", "projected_line", "nearest_points"}
            => /\ line' = line
               /\ \A s \in DOMAIN vec \ Rebound(res'.out) :
                     s \in DOMAIN vec' /\ V(s)' = V(s)]_vars

\* The keyword forms of a constructor call and their two arguments.
IsTwoPoint(kw) == "point0" \in DOMAIN kw
IsPointDirection(kw) == {"point_direction", "pd_pair", "direction"} \cap DOMAIN kw # {}
FirstArg(kw) ==
    IF "point_direction" \in DOMAIN kw THEN DataOf(kw.point_direction.items[1])
    ELSE IF "pd_pair" \in DOMAIN kw THEN DataOf(kw.pd_pair.items[1])
    ELSE IF "point" \in DOMAIN kw THEN DataOf(kw.point)
    ELSE DataOf(kw.point0)
SecondArg(kw) ==
    IF "point_direction" \in DOMAIN kw THEN DataOf(kw.point_direction.items[2])
    ELSE IF "pd_pair" \in DOMAIN kw THEN DataOf(kw.pd_pair.items[2])
    ELSE IF "direction" \in DOMAIN kw THEN DataOf(kw.direction)
    ELSE DataOf(kw.point1)
\* L was constructed from two points a # b, and M from the point a and the
\* direction b - a.
SameLine(L, M) ==
    /\ IsTwoPoint(ctor[L].kwargs) /\ IsPointDirection(ctor[M].kwargs)
    /\ FirstArg(ctor[L].kwargs) # SecondArg(ctor[L].kwargs)
    /\ FirstArg(ctor[M].kwargs) = FirstArg(ctor[L].kwargs)
    /\ SecondArg(ctor[M].kwargs)
         = <<SecondArg(ctor[L].kwargs)[1] - FirstArg(ctor[L].kwargs)[1],
             SecondArg(ctor[L].kwargs)[2] - FirstArg(ctor[L].kwargs)[2],
             SecondArg(ctor[L].kwargs)[3] - FirstArg(ctor[L].kwargs)[3]>>

C9_Witness ==
    /\ DOMAIN line = {"L1", "L2"}
    /\ SameLine("L1", "L2")
    /\ FirstArg(ctor["L1"].kwargs) # Zero

\* C9: the input forms agree: Line(point0=a, point1=b) with a # b and a
\* Line built from the point a and the direction b - a in any of the other
\* forms have the same p = a and the same d = b - a.
C9_FormsAgree ==
    \A L \in DOMAIN line, M \in DOMAIN line :
        SameLine(L, M) =>
            /\ LineState(L).p = FirstArg(ctor[L].kwargs)
            /\ LineState(M).p = FirstArg(ctor[L].kwargs)
            /\ LineState(L).d = SecondArg(ctor[M].kwargs)
            /\ LineState(M).d = SecondArg(ctor[M].kwargs)

\* C10: the position tag defaults to position, and every copy of a Vector
\* carries the tag of the Vector it copies.
C10_TagPreserved ==
    /\ (res.op = "Vector" /\ res.out.t = "Vector" /\ "position" \notin DOMAIN res.arg.kwargs)
            => isPos(res.out) = 1
    /\ "w" \in DOMAIN vec => isPos(V("w")) = isPos(V("v"))

=============================================================================
